---- MODULE Spec2Model ----
(***************************************************************************)
(* Live bidding platform: the bid admission function placeBid, the HTTP    *)
(* route POST /api/bid and the Socket.io handlers of server/index.js, run  *)
(* on the Node.js event loop.  A handler runs without interruption until   *)
(* it reaches an await; the continuation of an await runs later, in the    *)
(* order in which the awaits were reached.                                 *)
(***************************************************************************)
EXTENDS Integers, Sequences, FiniteSets

\* ------------------------------------------------------------------ bounds

\* Number of bid requests (socket messages and HTTP posts together) a run holds.
MaxReqs == 2

Reqs == 1..MaxReqs

\* Connections to the Socket.io server, named in the order in which they are
\* made; a socket id is used by one connection.
Sockets == {"s1", "s2"}

\* The connection made just before s (s itself for the first one).
Previous(s) == IF s = "s2" THEN "s1" ELSE s

\* ------------------------------------------------------- JavaScript values

Undefined == [t |-> "undefined", n |-> 0, s |-> ""]

Null == [t |-> "null", n |-> 0, s |-> ""]

NaN == [t |-> "number", n |-> 0, s |-> "NaN"]

Num(k) == [t |-> "number", n |-> k, s |-> ""]

Str(x) == [t |-> "string", n |-> 0, s |-> x]

IsNaN(v) == v.t = "number" /\ v.s = "NaN"

IsNumber(v) == v.t = "number" /\ ~IsNaN(v)

\* The strings of the model: "", the bidder names and one non-numeric amount.
\* None of them is a numeric literal, so only "" converts to a number.
StringToNumber(x) == IF x = "" THEN Num(0) ELSE NaN

ToNumber(v) ==
  CASE v.t = "number" -> v
    [] v.t = "string" -> StringToNumber(v.s)
    [] v.t = "null" -> Num(0)
    [] OTHER -> NaN

\* Position of a model string in code-unit order ("" < "A" < "B" < "abc").
StrRank(x) == CASE x = "" -> 0 [] x = "A" -> 1 [] x = "B" -> 2 [] OTHER -> 3

\* !v
Falsy(v) ==
  \/ v.t \in {"undefined", "null"}
  \/ v.t = "number" /\ (IsNaN(v) \/ v.n = 0)
  \/ v.t = "string" /\ v.s = ""

\* a === b
StrictEq(a, b) == a.t = b.t /\ ~IsNaN(a) /\ a = b

\* a <= b: two strings compare by code units, anything else as numbers, and
\* a comparison with NaN is false.
JsLessEq(a, b) ==
  IF a.t = "string" /\ b.t = "string"
    THEN StrRank(a.s) <= StrRank(b.s)
    ELSE LET x == ToNumber(a)
             y == ToNumber(b)
         IN  ~IsNaN(x) /\ ~IsNaN(y) /\ x.n <= y.n

\* ------------------------------------------------------------------ inputs

Bid(id, amount, name) == [itemId |-> id, amount |-> amount, bidderName |-> name]

\* The payloads a request may carry.  On item 1 (opening bid 100): 105 and 110
\* by two bidders, 110 again by the first one, a negative amount, and an amount
\* that is a string and not a number.  On item 2 (opening bid 500): an amount below the current
\* bid.  An item id the catalog does not hold.  And one payload for each field
\* left out or falsy: no itemId, amount 0, no bidderName.
BidData ==
  { Bid(Num(1), Num(105), Str("A")),
    Bid(Num(1), Num(110), Str("B")),
    Bid(Num(1), Num(110), Str("A")),
    Bid(Num(1), Num(-5), Str("B")),
    Bid(Num(1), Str("abc"), Str("A")),
    Bid(Num(2), Num(110), Str("A")),
    Bid(Num(999), Num(110), Str("B")),
    Bid(Undefined, Num(110), Str("A")),
    Bid(Num(1), Num(0), Str("A")),
    Bid(Num(1), Num(110), Undefined) }

NoData == [itemId |-> Undefined, amount |-> Undefined, bidderName |-> Undefined]

\* ------------------------------------------------------------------- state

VARIABLES
  auctionItems,   \* the item list
  isBidLocked,    \* the lock flag
  nreq,           \* number of requests that have arrived
  req,            \* per request: surface, originating socket and payload
  pc,             \* per request: the statement it is at
  item,           \* per request: placeBid's local `item` (index in auctionItems, 0 = none)
  result,         \* per request: what placeBid returned
  running,        \* the request whose code the event loop is executing, 0 = none
  microtasks,     \* requests whose await continuation is queued, in order
  sockets,        \* per socket: "new", "connected" or "closed"
  inbox,          \* per socket: the events sent on its connection, in order
  response,       \* per request: the HTTP response sent for it
  lastAccepted,   \* per item: amount and bidder of the bid accepted last (history)
  now             \* the time, in ms since the catalog was loaded

vars == <<auctionItems, isBidLocked, nreq, req, pc, item, result, running,
          microtasks, sockets, inbox, response, lastAccepted, now>>

Item(id, title, bid, image) ==
  [id |-> Num(id), title |-> title, currentBid |-> Num(bid),
   highestBidder |-> Null, auctionEndsAt |-> 900000, image |-> image]

\* The catalog the server starts with.
SeedItems ==
  << Item(1, "Vintage Camera", 100, "photo-1516035069371-29a1b244cc32"),
     Item(2, "Rare Painting", 500, "photo-1579783902614-a3fb3927b6a5"),
     Item(3, "Antique Vase", 250, "photo-1618220179428-22790b461013"),
     Item(4, "Classic Car Model", 1000, "photo-1605901309584-818e25960b8f") >>

NoReq == [surface |-> "none", socket |-> "", data |-> NoData]

NoError == [kind |-> "none", current |-> Undefined]

NoItem == [id |-> Undefined, title |-> "", currentBid |-> Undefined,
           highestBidder |-> Undefined, auctionEndsAt |-> 0, image |-> ""]

NoResult == [returned |-> FALSE, success |-> FALSE, error |-> NoError, item |-> NoItem]

NoResponse == [status |-> 0, hasSuccess |-> FALSE, success |-> FALSE,
               error |-> NoError, item |-> NoItem]

Init ==
  /\ auctionItems = SeedItems
  /\ isBidLocked = FALSE
  /\ nreq = 0
  /\ req = [r \in Reqs |-> NoReq]
  /\ pc = [r \in Reqs |-> "idle"]
  /\ item = [r \in Reqs |-> 0]
  /\ result = [r \in Reqs |-> NoResult]
  /\ running = 0
  /\ microtasks = <<>>
  /\ sockets = [s \in Sockets |-> "new"]
  /\ inbox = [s \in Sockets |-> <<>>]
  /\ response = [r \in Reqs |-> NoResponse]
  /\ lastAccepted = [i \in 1..Len(SeedItems) |->
                       [amount |-> SeedItems[i].currentBid,
                        bidderName |-> SeedItems[i].highestBidder]]
  /\ now = 0


\* ------------------------------------------------------------ event loop

\* Variant: every statement boundary is a scheduling point, as it would be on
\* a preemptive runtime.
SuspendsEverywhere(label) == TRUE

\* Variant: an await between the two assignments of an accepted bid.
SuspendsBetweenWrites(label) == label \in {"sleep", "await", "setBidder"}

\* The statements after which control returns to the event loop: the await of
\* the wait loop and the await of the handlers on placeBid's promise.
Suspends(label) == label \in {"sleep", "await"}

\* Request r is the one the event loop may execute next: the running handler
\* goes on until it suspends; a suspended one resumes when nothing runs, a
\* continuation only at the head of the microtask queue.
CanRun(r) ==
  IF Suspends(pc[r])
    THEN /\ running = 0
         /\ pc[r] = "await" => (microtasks # <<>> /\ Head(microtasks) = r)
    ELSE running = r

Goto(r, label) ==
  /\ pc' = [pc EXCEPT ![r] = label]
  /\ running' = IF Suspends(label) \/ label = "done" THEN 0 ELSE r

\* --------------------------------------------------------------- events

\* Variant: the joining socket is sent the catalog as it was loaded.
InitialStateOfCatalog(items) == [type |-> "initialState", items |-> SeedItems]

InitialState(items) == [type |-> "initialState", items |-> items]

BidUpdate(it) == [type |-> "bidUpdate", item |-> it]

BidSuccess(it) == [type |-> "bidSuccess", item |-> it]

\* hasItemId: whether the payload has an itemId key
BidError(err, hasId, id) ==
  [type |-> "bidError", error |-> err, hasItemId |-> hasId, itemId |-> id]

\* Variant: the event goes to every connected socket (io.emit for socket.emit).
SocketEmitToAll(box, s, e) ==
  [x \in Sockets |-> IF sockets[x] = "connected" THEN Append(box[x], e) ELSE box[x]]

\* socket.emit: an event for one socket
SocketEmit(box, s, e) ==
  IF sockets[s] = "connected" THEN [box EXCEPT ![s] = Append(@, e)] ELSE box

\* Variant: the event also reaches a socket whose connection handler has not
\* run yet.
IoEmitToEverySocket(box, e) ==
  [s \in Sockets |-> IF sockets[s] # "closed" THEN Append(box[s], e) ELSE box[s]]

\* io.emit: an event for every connected socket
IoEmit(box, e) ==
  [s \in Sockets |-> IF sockets[s] = "connected" THEN Append(box[s], e) ELSE box[s]]

\* ------------------------------------------------------------- placeBid

MissingFieldsError == [kind |-> "MissingFields", current |-> Undefined]

ItemNotFoundError == [kind |-> "ItemNotFound", current |-> Undefined]

\* Variant: the message shows the opening bid of the catalog, not the bid
\* compared with.
BidTooLowErrorStale(current) ==
  [kind |-> "BidTooLow", current |-> SeedItems[1].currentBid]

\* `Bid must be higher than current bid of $${item.currentBid}`
BidTooLowError(current) == [kind |-> "BidTooLow", current |-> current]

Failure(err) == [returned |-> TRUE, success |-> FALSE, error |-> err, item |-> NoItem]

\* { success: true, item: { ...item } }: a copy of the item as it is now
Success(it) == [returned |-> TRUE, success |-> TRUE, error |-> NoError, item |-> it]

\* Variant: the first item stands in when no id matches.
FindItemOrFirst(items, id) ==
  LET S == {i \in 1..Len(items) : StrictEq(items[i].id, id)}
  IN  IF S = {} THEN 1 ELSE CHOOSE i \in S : \A j \in S : i <= j

\* auctionItems.find(i => i.id === itemId): index of the first match, 0 if none
FindItem(items, id) ==
  LET S == {i \in 1..Len(items) : StrictEq(items[i].id, id)}
  IN  IF S = {} THEN 0 ELSE CHOOSE i \in S : \A j \in S : i <= j

\* Variant: the amount is compared with zero, not with the current bid.
TooLowNonPositive(newBid, currentBid) == JsLessEq(newBid, Num(0))

\* Variant: `<` for `<=`, so that a bid equal to the current bid passes.
TooLowStrict(newBid, currentBid) ==
  JsLessEq(newBid, currentBid) /\ ~JsLessEq(currentBid, newBid)

\* Variant: a bid is also turned down while another request is in flight.
TooLowUnderContention(newBid, currentBid) ==
  JsLessEq(newBid, currentBid) \/ microtasks # <<>>

\* Variant: a bid is also turned down once the auctions have ended.
TooLowOrClosed(newBid, currentBid) ==
  JsLessEq(newBid, currentBid) \/ now > SeedItems[1].auctionEndsAt

\* newBid <= item.currentBid
TooLow(newBid, currentBid) == JsLessEq(newBid, currentBid)

\* !itemId || !amount || !bidderName
MissingFields(d) == Falsy(d.itemId) \/ Falsy(d.amount) \/ Falsy(d.bidderName)

\* while (isBidLocked) { await new Promise(resolve => setTimeout(resolve, 10)); }
\* The test is made on entry and again each time the timer has fired.
While(r) ==
  /\ pc[r] \in {"while", "sleep"}
  /\ CanRun(r)
  /\ IF isBidLocked THEN Goto(r, "sleep") ELSE Goto(r, "acquire")
  /\ UNCHANGED <<auctionItems, isBidLocked, nreq, req, item, result, microtasks,
                 sockets, inbox, response, lastAccepted, now>>

\* isBidLocked = true
Acquire(r) ==
  /\ pc[r] = "acquire"
  /\ CanRun(r)
  /\ isBidLocked' = TRUE
  /\ Goto(r, "find")
  /\ UNCHANGED <<auctionItems, nreq, req, item, result, microtasks, sockets,
                 inbox, response, lastAccepted, now>>

\* const item = auctionItems.find(...); if (!item) return { success: false, ... }
Find(r) ==
  /\ pc[r] = "find"
  /\ CanRun(r)
  /\ LET i == FindItem(auctionItems, req[r].data.itemId)
     IN  /\ item' = [item EXCEPT ![r] = i]
         /\ IF i = 0
              THEN /\ result' = [result EXCEPT ![r] = Failure(ItemNotFoundError)]
                   /\ Goto(r, "finally")
              ELSE /\ result' = result
                   /\ Goto(r, "check")
  /\ UNCHANGED <<auctionItems, isBidLocked, nreq, req, microtasks, sockets,
                 inbox, response, lastAccepted, now>>

\* Variant: the HTTP route checks a bid against its own copy of the catalog,
\* which the socket bids do not change.
CheckHttpAgainstOwnCopy(r) ==
  /\ pc[r] = "check"
  /\ CanRun(r)
  /\ LET current == IF req[r].surface = "http"
                      THEN SeedItems[item[r]].currentBid
                      ELSE auctionItems[item[r]].currentBid
     IN  IF TooLow(req[r].data.amount, current)
           THEN /\ result' = [result EXCEPT ![r] = Failure(BidTooLowError(current))]
                /\ Goto(r, "finally")
                /\ lastAccepted' = lastAccepted
           ELSE /\ result' = result
                /\ Goto(r, "setBid")
                /\ lastAccepted' =
                     [lastAccepted EXCEPT ![item[r]] =
                        [amount |-> req[r].data.amount,
                         bidderName |-> req[r].data.bidderName]]
  /\ UNCHANGED <<auctionItems, isBidLocked, nreq, req, item, microtasks, sockets,
                 inbox, response, now>>

\* if (newBid <= item.currentBid) return { success: false, error: ... }
Check(r) ==
  /\ pc[r] = "check"
  /\ CanRun(r)
  /\ LET current == auctionItems[item[r]].currentBid
     IN  IF TooLow(req[r].data.amount, current)
           THEN /\ result' = [result EXCEPT ![r] = Failure(BidTooLowError(current))]
                /\ Goto(r, "finally")
                /\ lastAccepted' = lastAccepted
           ELSE /\ result' = result
                /\ Goto(r, "setBid")
                /\ lastAccepted' =
                     [lastAccepted EXCEPT ![item[r]] =
                        [amount |-> req[r].data.amount,
                         bidderName |-> req[r].data.bidderName]]
  /\ UNCHANGED <<auctionItems, isBidLocked, nreq, req, item, microtasks, sockets,
                 inbox, response, now>>

\* Variant: the new bid is written to every item of the list.
SetBidOnEveryItem(r) ==
  /\ pc[r] = "setBid"
  /\ CanRun(r)
  /\ auctionItems' = [i \in 1..Len(auctionItems) |->
                        [auctionItems[i] EXCEPT !.currentBid = req[r].data.amount]]
  /\ Goto(r, "setBidder")
  /\ UNCHANGED <<isBidLocked, nreq, req, item, result, microtasks, sockets,
                 inbox, response, lastAccepted, now>>

\* item.currentBid = newBid
SetBid(r) ==
  /\ pc[r] = "setBid"
  /\ CanRun(r)
  /\ auctionItems' = [auctionItems EXCEPT ![item[r]].currentBid = req[r].data.amount]
  /\ Goto(r, "setBidder")
  /\ UNCHANGED <<isBidLocked, nreq, req, item, result, microtasks, sockets,
                 inbox, response, lastAccepted, now>>

\* item.highestBidder = bidderName
SetBidder(r) ==
  /\ pc[r] = "setBidder"
  /\ CanRun(r)
  /\ auctionItems' =
       [auctionItems EXCEPT ![item[r]].highestBidder = req[r].data.bidderName]
  /\ Goto(r, "return")
  /\ UNCHANGED <<isBidLocked, nreq, req, item, result, microtasks, sockets,
                 inbox, response, lastAccepted, now>>

\* return { success: true, item: { ...item } }
Return(r) ==
  /\ pc[r] = "return"
  /\ CanRun(r)
  /\ result' = [result EXCEPT ![r] = Success(auctionItems[item[r]])]
  /\ Goto(r, "finally")
  /\ UNCHANGED <<auctionItems, isBidLocked, nreq, req, item, microtasks, sockets,
                 inbox, response, lastAccepted, now>>

\* Variant: the release is the last statement of the try block and not a
\* finally clause, so the early returns skip it.
FinallyAfterSuccessOnly(r) ==
  /\ pc[r] = "finally"
  /\ CanRun(r)
  /\ isBidLocked' = IF result[r].success THEN FALSE ELSE isBidLocked
  /\ microtasks' = Append(microtasks, r)
  /\ Goto(r, "await")
  /\ UNCHANGED <<auctionItems, nreq, req, item, result, sockets, inbox, response, lastAccepted, now>>

\* finally { isBidLocked = false }, then placeBid's promise is settled and the
\* handler's await queues its continuation.
Finally(r) ==
  /\ pc[r] = "finally"
  /\ CanRun(r)
  /\ isBidLocked' = FALSE
  /\ microtasks' = Append(microtasks, r)
  /\ Goto(r, "await")
  /\ UNCHANGED <<auctionItems, nreq, req, item, result, sockets, inbox, response, lastAccepted, now>>

\* ------------------------------------------------------------- handlers

\* The process is running: no rejected promise has ended it.
Alive == \A r \in Reqs : pc[r] # "crashed"

\* No handler's promise has been rejected and is waiting to be reported.
NoRejectionPending == \A r \in Reqs : pc[r] # "thrown"

\* The event loop runs every queued continuation, and then reports the
\* rejected promises, before it takes the next I/O event, so a handler starts
\* while continuations or rejections are pending only if it is for a message
\* of the same batch: the messages one socket delivers together are all
\* dispatched before the first continuation runs.
SameBatch(surface, s) ==
  /\ \A i \in 1..Len(microtasks) :
       /\ surface = "socket"
       /\ req[microtasks[i]].surface = "socket"
       /\ req[microtasks[i]].socket = s
  /\ \A r \in Reqs :
       pc[r] = "thrown" => (surface = "socket" /\ req[r].socket = s)

\* A request arrives: socket.on('placeBid', ...) or app.post('/api/bid', ...)
\* is called with its payload.
Arrive(surface, s, data) ==
  /\ Alive
  /\ running = 0
  /\ SameBatch(surface, s)
  /\ nreq < MaxReqs
  /\ nreq' = nreq + 1
  /\ req' = [req EXCEPT ![nreq + 1] = [surface |-> surface, socket |-> s, data |-> data]]
  /\ Goto(nreq + 1, "validate")
  /\ UNCHANGED <<auctionItems, isBidLocked, item, result, microtasks, sockets,
                 inbox, response, lastAccepted, now>>

SocketPlaceBid(s, data) ==
  /\ sockets[s] = "connected"
  /\ Arrive("socket", s, data)

\* socket.on('placeBid', ...) is called with no payload (data is undefined):
\* `const { itemId, amount, bidderName } = data` throws a TypeError, the
\* handler's promise is rejected and nothing is sent.
SocketPlaceBidNoPayload(s) ==
  /\ Alive
  /\ sockets[s] = "connected"
  /\ running = 0
  /\ SameBatch("socket", s)
  /\ nreq < MaxReqs
  /\ nreq' = nreq + 1
  /\ req' = [req EXCEPT ![nreq + 1] = [surface |-> "socket", socket |-> s, data |-> NoData]]
  /\ pc' = [pc EXCEPT ![nreq + 1] = "thrown"]
  /\ UNCHANGED <<auctionItems, isBidLocked, item, result, running, microtasks,
                 sockets, inbox, response, lastAccepted, now>>

\* The rejected promise of a handler that threw has no catch handler and the
\* process has no 'unhandledRejection' listener: once the queued continuations
\* have run, Node (v16 or higher) raises it as an uncaught exception and the
\* process exits.
UnhandledRejection(r) ==
  /\ pc[r] = "thrown"
  /\ running = 0
  /\ microtasks = <<>>
  /\ pc' = [pc EXCEPT ![r] = "crashed"]
  /\ UNCHANGED <<auctionItems, isBidLocked, nreq, req, item, result, running,
                 microtasks, sockets, inbox, response, lastAccepted, now>>

HttpBid(data) == Arrive("http", "", data)

\* res.status(code).json(body)
Respond(r, status, hasSuccess, res) ==
  [response EXCEPT ![r] = [status |-> status, hasSuccess |-> hasSuccess,
                           success |-> res.success, error |-> res.error,
                           item |-> res.item]]

\* The request leaves the server: its locals are gone.
Finish(r) ==
  /\ req' = [req EXCEPT ![r] = NoReq]
  /\ item' = [item EXCEPT ![r] = 0]
  /\ result' = [result EXCEPT ![r] = NoResult]
  /\ Goto(r, "done")

\* if (!itemId || !amount || !bidderName) { ...'Missing required fields'...; return }
\* and otherwise the call of placeBid.
Validate(r) ==
  /\ pc[r] = "validate"
  /\ CanRun(r)
  /\ IF MissingFields(req[r].data)
       THEN /\ IF req[r].surface = "socket"
                 THEN /\ inbox' = SocketEmit(inbox, req[r].socket,
                                     BidError(MissingFieldsError, FALSE, Undefined))
                      /\ response' = response
                 ELSE /\ response' = Respond(r, 400, FALSE, Failure(MissingFieldsError))
                      /\ inbox' = inbox
            /\ Finish(r)
       ELSE /\ Goto(r, "while")
            /\ UNCHANGED <<req, item, result, inbox, response, lastAccepted>>
  /\ UNCHANGED <<auctionItems, isBidLocked, nreq, microtasks, sockets, lastAccepted, now>>

\* Variant: placeBid returns the stored item itself and not a copy of it, so
\* the events and the response carry the item as it is when they are sent.
ContinueWithStoredItem(r) ==
  /\ pc[r] = "await"
  /\ CanRun(r)
  /\ microtasks' = Tail(microtasks)
  /\ IF req[r].surface = "socket"
       THEN /\ response' = response
            /\ IF result[r].success
                 THEN inbox' = SocketEmit(IoEmit(inbox, BidUpdate(auctionItems[item[r]])),
                                          req[r].socket, BidSuccess(auctionItems[item[r]]))
                 ELSE inbox' = SocketEmit(inbox, req[r].socket,
                                 BidError(result[r].error, TRUE, req[r].data.itemId))
       ELSE IF result[r].success
              THEN /\ inbox' = IoEmit(inbox, BidUpdate(auctionItems[item[r]]))
                   /\ response' = Respond(r, 200, TRUE, Success(auctionItems[item[r]]))
              ELSE /\ inbox' = inbox
                   /\ response' = Respond(r, 400, TRUE, result[r])
  /\ Finish(r)
  /\ UNCHANGED <<auctionItems, isBidLocked, nreq, sockets, lastAccepted, now>>

\* Variant: the socket handler emits bidSuccess to the bidder before it
\* broadcasts bidUpdate.
ContinueSuccessFirst(r) ==
  /\ pc[r] = "await"
  /\ CanRun(r)
  /\ microtasks' = Tail(microtasks)
  /\ IF req[r].surface = "socket"
       THEN /\ response' = response
            /\ IF result[r].success
                 THEN inbox' = IoEmit(SocketEmit(inbox, req[r].socket,
                                                 BidSuccess(result[r].item)),
                                      BidUpdate(result[r].item))
                 ELSE inbox' = SocketEmit(inbox, req[r].socket,
                                 BidError(result[r].error, TRUE, req[r].data.itemId))
       ELSE IF result[r].success
              THEN /\ inbox' = IoEmit(inbox, BidUpdate(result[r].item))
                   /\ response' = Respond(r, 200, TRUE, result[r])
              ELSE /\ inbox' = inbox
                   /\ response' = Respond(r, 400, TRUE, result[r])
  /\ Finish(r)
  /\ UNCHANGED <<auctionItems, isBidLocked, nreq, sockets, lastAccepted, now>>

\* Variant: the HTTP handler also announces a bid that was turned down.
ContinueHttpAnnouncesRejection(r) ==
  /\ pc[r] = "await"
  /\ CanRun(r)
  /\ microtasks' = Tail(microtasks)
  /\ IF req[r].surface = "socket"
       THEN /\ response' = response
            /\ IF result[r].success
                 THEN inbox' = SocketEmit(IoEmit(inbox, BidUpdate(result[r].item)),
                                          req[r].socket, BidSuccess(result[r].item))
                 ELSE inbox' = SocketEmit(inbox, req[r].socket,
                                 BidError(result[r].error, TRUE, req[r].data.itemId))
       ELSE IF result[r].success
              THEN /\ inbox' = IoEmit(inbox, BidUpdate(result[r].item))
                   /\ response' = Respond(r, 200, TRUE, result[r])
              ELSE /\ inbox' = IoEmit(inbox, BidError(result[r].error, TRUE,
                                                       req[r].data.itemId))
                   /\ response' = Respond(r, 400, TRUE, result[r])
  /\ Finish(r)
  /\ UNCHANGED <<auctionItems, isBidLocked, nreq, sockets, lastAccepted, now>>

\* The code after `const result = await placeBid(itemId, amount, bidderName)`.
Continue(r) ==
  /\ pc[r] = "await"
  /\ CanRun(r)
  /\ microtasks' = Tail(microtasks)
  /\ IF req[r].surface = "socket"
       THEN /\ response' = response
            /\ IF result[r].success
                 THEN inbox' = SocketEmit(IoEmit(inbox, BidUpdate(result[r].item)),
                                          req[r].socket, BidSuccess(result[r].item))
                 ELSE inbox' = SocketEmit(inbox, req[r].socket,
                                 BidError(result[r].error, TRUE, req[r].data.itemId))
       ELSE IF result[r].success
              THEN /\ inbox' = IoEmit(inbox, BidUpdate(result[r].item))
                   /\ response' = Respond(r, 200, TRUE, result[r])
              ELSE /\ inbox' = inbox
                   /\ response' = Respond(r, 400, TRUE, result[r])
  /\ Finish(r)
  /\ UNCHANGED <<auctionItems, isBidLocked, nreq, sockets, lastAccepted, now>>

\* res.json({ items: auctionItems }) of GET /api/auctions and GET /items: the
\* response of a read, which has the item list and none of a bid's fields.
ItemsResponse(items) ==
  [status |-> 200, hasSuccess |-> FALSE, success |-> FALSE, error |-> NoError,
   item |-> NoItem, items |-> items]

\* app.get('/api/auctions', ...) and app.get('/items', ...): the handler
\* answers with the item list and returns; it awaits nothing.
GetItems(route) ==
  /\ Alive
  /\ running = 0
  /\ SameBatch("http", "")
  /\ nreq < MaxReqs
  /\ nreq' = nreq + 1
  /\ pc' = [pc EXCEPT ![nreq + 1] = "done"]
  /\ response' = [response EXCEPT ![nreq + 1] = ItemsResponse(auctionItems)]
  /\ UNCHANGED <<auctionItems, isBidLocked, req, item, result, running, microtasks,
                 sockets, inbox, lastAccepted, now>>

\* io.on('connection', ...): the new socket is sent the item list.
Connect(s) ==
  /\ Alive
  /\ NoRejectionPending
  /\ running = 0
  /\ microtasks = <<>>
  /\ sockets[s] = "new"
  /\ Previous(s) # s => sockets[Previous(s)] # "new"
  /\ sockets' = [sockets EXCEPT ![s] = "connected"]
  /\ inbox' = [inbox EXCEPT ![s] = Append(@, InitialState(auctionItems))]
  /\ UNCHANGED <<auctionItems, isBidLocked, nreq, req, pc, item, result, running,
                 microtasks, response, lastAccepted, now>>

\* socket.on('disconnect', ...)
Disconnect(s) ==
  /\ Alive
  /\ NoRejectionPending
  /\ running = 0
  /\ microtasks = <<>>
  /\ sockets[s] = "connected"
  /\ sockets' = [sockets EXCEPT ![s] = "closed"]
  /\ inbox' = [inbox EXCEPT ![s] = <<>>]
  /\ UNCHANGED <<auctionItems, isBidLocked, nreq, req, pc, item, result, running,
                 microtasks, response, lastAccepted, now>>

\* Time passes between two I/O events.  Two moments stand for all: the
\* loading of the catalog, and one after the auctionEndsAt it gave the items.
Tick ==
  /\ Alive
  /\ NoRejectionPending
  /\ running = 0
  /\ microtasks = <<>>
  /\ now <= SeedItems[1].auctionEndsAt
  /\ now' = SeedItems[1].auctionEndsAt + 1
  /\ UNCHANGED <<auctionItems, isBidLocked, nreq, req, pc, item, result, running,
                 microtasks, sockets, inbox, response, lastAccepted>>

Next ==
  \/ \E s \in Sockets : Connect(s)
  \/ \E s \in Sockets : Disconnect(s)
  \/ \E s \in Sockets, d \in BidData : SocketPlaceBid(s, d)
  \/ \E s \in Sockets : SocketPlaceBidNoPayload(s)
  \/ \E r \in Reqs : UnhandledRejection(r)
  \/ Tick
  \/ \E d \in BidData : HttpBid(d)
  \/ \E route \in {"/api/auctions", "/items"} : GetItems(route)
  \/ \E r \in Reqs : Validate(r)
  \/ \E r \in Reqs : While(r)
  \/ \E r \in Reqs : Acquire(r)
  \/ \E r \in Reqs : Find(r)
  \/ \E r \in Reqs : Check(r)
  \/ \E r \in Reqs : SetBid(r)
  \/ \E r \in Reqs : SetBidder(r)
  \/ \E r \in Reqs : Return(r)
  \/ \E r \in Reqs : Finally(r)
  \/ \E r \in Reqs : Continue(r)

Spec == Init /\ [][Next]_vars


\* ---------------------------------------------------------------- claims

\* Between `isBidLocked = true` and `isBidLocked = false`.
InCriticalSection(r) ==
  pc[r] \in {"find", "check", "setBid", "setBidder", "return", "finally"}

\* a > b as numbers
StrictlyGreater(a, b) == IsNumber(a) /\ IsNumber(b) /\ a.n > b.n

Amount(r) == req[r].data.amount

\* C1: in every reachable state at most one placeBid invocation is between
\* acquiring isBidLocked and releasing it, whatever the callers and the items.
C1_MutualExclusion == Cardinality({r \in Reqs : InCriticalSection(r)}) <= 1

\* A request is inside the critical section while another caller's request is
\* in flight.
C1_Witness ==
  \E r1, r2 \in Reqs :
    /\ r1 # r2
    /\ InCriticalSection(r1)
    /\ isBidLocked
    /\ pc[r2] = "await"

\* C2: every change of an item's currentBid, and every acceptance, puts a value
\* strictly greater than the one it replaces.
C2_Monotonic ==
  [][ /\ \A i \in 1..Len(auctionItems) :
           auctionItems'[i].currentBid # auctionItems[i].currentBid
             => StrictlyGreater(auctionItems'[i].currentBid, auctionItems[i].currentBid)
      /\ \A r \in Reqs :
           (pc[r] = "setBid" /\ pc'[r] = "setBidder")
             => StrictlyGreater(auctionItems'[item[r]].currentBid,
                                auctionItems[item[r]].currentBid) ]_vars

\* C3: of two requests in flight together for the same item, with different
\* amounts both above the item's opening bid, at most one is accepted.
C3_SingleWinner ==
  \A r1, r2 \in Reqs :
    ( /\ r1 # r2
      /\ pc[r1] = "await" /\ pc[r2] = "await"
      /\ item[r1] # 0 /\ item[r1] = item[r2]
      /\ StrictlyGreater(Amount(r1), SeedItems[item[r1]].currentBid)
      /\ StrictlyGreater(Amount(r2), SeedItems[item[r2]].currentBid)
      /\ Amount(r1) # Amount(r2) )
    => ~(result[r1].success /\ result[r2].success)

\* The requests that have arrived, all of them returned from placeBid and none
\* answered yet, are bids on one item with distinct numeric amounts above its
\* opening bid.
ConcurrentBidsOn(i) ==
  /\ nreq >= 1
  /\ running = 0
  /\ \A r \in 1..nreq :
       /\ pc[r] = "await"
       /\ item[r] = i
       /\ StrictlyGreater(Amount(r), SeedItems[i].currentBid)
  /\ \A r1, r2 \in 1..nreq : r1 # r2 => Amount(r1) # Amount(r2)

\* C4: once N concurrent bids on one item, with distinct amounts above the
\* opening bid, have all returned, the item's currentBid is the amount accepted
\* last and is not below any amount submitted.
C4_FinalIsHighest ==
  \A i \in 1..Len(auctionItems) :
    ConcurrentBidsOn(i) =>
      LET acc == {r \in 1..nreq : result[r].success}
      IN  /\ acc # {}
          /\ \E last \in acc :
               /\ \A r \in acc : r <= last
               /\ auctionItems[i].currentBid = Amount(last)
          /\ \A r \in 1..nreq :
               ~StrictlyGreater(Amount(r), auctionItems[i].currentBid)

\* 110 entered first and was accepted, 105 entered second and was rejected.
C4_Witness ==
  /\ ConcurrentBidsOn(1)
  /\ nreq = 2
  /\ Amount(1) = Num(110) /\ result[1].success
  /\ Amount(2) = Num(105) /\ ~result[2].success

\* C5: whenever another request, a joining socket or a read can observe the
\* store, each item's currentBid and highestBidder are the amount and the
\* bidder of one and the same bid, the one accepted last.
C5_Atomicity ==
  running = 0 =>
    \A i \in 1..Len(auctionItems) :
      /\ auctionItems[i].currentBid = lastAccepted[i].amount
      /\ auctionItems[i].highestBidder = lastAccepted[i].bidderName

\* B's 110 has replaced A's accepted 105 while A's request is still in flight.
C5_Witness ==
  /\ running = 0
  /\ auctionItems[1].currentBid = Num(110)
  /\ auctionItems[1].highestBidder = Str("B")
  /\ \E r \in Reqs :
       /\ pc[r] = "await"
       /\ result[r].success
       /\ result[r].item.highestBidder = Str("A")

\* C6: a request is accepted exactly when its amount is strictly greater than
\* the item's currentBid as it stands inside the lock hold that writes it.
C6_AdmissionRule ==
  \A r \in Reqs :
    /\ pc[r] = "setBid"
         => StrictlyGreater(Amount(r), auctionItems[item[r]].currentBid)
    /\ (pc[r] = "finally" /\ result[r].error.kind = "BidTooLow")
         => ~StrictlyGreater(Amount(r), auctionItems[item[r]].currentBid)

\* Request r names an existing item and a bidder, and its amount is a number
\* not above that item's currentBid.
LowBid(r) ==
  LET d == req[r].data
  IN  /\ ~Falsy(d.bidderName)
      /\ IsNumber(d.amount)
      /\ \E i \in 1..Len(auctionItems) :
           /\ auctionItems[i].id = d.itemId
           /\ IsNumber(auctionItems[i].currentBid)
           /\ d.amount.n <= auctionItems[i].currentBid.n

BeforeDecision(r) == pc[r] \in {"validate", "while", "sleep", "acquire", "find", "check"}

\* A low bid, on every step it takes, is neither accepted nor turned away
\* before placeBid, is given the BidTooLow error by the check, and changes no
\* item.
RejectsTooLow(r) ==
  /\ (BeforeDecision(r) /\ LowBid(r) /\ pc'[r] # pc[r])
       => /\ auctionItems' = auctionItems
          /\ pc'[r] \notin {"done", "setBid"}
          /\ pc[r] = "check" => result'[r].error.kind = "BidTooLow"
  /\ (result[r].error.kind = "BidTooLow" /\ pc'[r] # pc[r])
       => auctionItems' = auctionItems

\* C7 as stated: every amount at or below the item's currentBid, zero
\* included, yields BidTooLow and leaves every item unchanged.
C7_EveryLowAmount == [][\A r \in Reqs : RejectsTooLow(r)]_vars

\* C7: an amount that is not zero and is at or below the item's currentBid,
\* equal included, yields BidTooLow and leaves every item unchanged.
C7_NonZeroLowAmount ==
  [][\A r \in Reqs : ~Falsy(Amount(r)) => RejectsTooLow(r)]_vars

\* A bid equal to the current bid has been given the BidTooLow error.
C7_Witness ==
  \E r \in Reqs :
    /\ pc[r] = "finally"
    /\ result[r].error.kind = "BidTooLow"
    /\ Amount(r) = auctionItems[item[r]].currentBid
    /\ auctionItems[item[r]].highestBidder # Null

ValidRequest(d) ==
  /\ ~Falsy(d.itemId)
  /\ ~Falsy(d.bidderName)
  /\ IsNumber(d.amount)
  /\ d.amount.n > 0

\* C8: a request with a missing field, or with an amount that is not a
\* positive number, never reaches the store mutation.
C8_InvalidNeverMutates ==
  \A r \in Reqs :
    pc[r] \in {"setBid", "setBidder", "return"} => ValidRequest(req[r].data)

\* Request r is well-formed and names an item id the store does not hold.
AbsentItem(r) ==
  /\ pc[r] \notin {"idle", "done"}
  /\ ~Falsy(req[r].data.itemId) /\ ~Falsy(Amount(r)) /\ ~Falsy(req[r].data.bidderName)
  /\ \A i \in 1..Len(auctionItems) : auctionItems[i].id # req[r].data.itemId

\* C9: a bid on an item id that is not in the store gets the ItemNotFound
\* error, changes no item and puts no bidUpdate into any inbox: the only event
\* is the bidError to its originator.
C9_ItemNotFound ==
  [][\A r \in Reqs :
       (AbsentItem(r) /\ pc'[r] # pc[r]) =>
         /\ auctionItems' = auctionItems
         /\ pc'[r] \notin {"check", "setBid", "setBidder", "return"}
         /\ pc[r] = "validate" => pc'[r] = "while"
         /\ pc[r] = "find" => result'[r] = Failure(ItemNotFoundError)
         /\ pc[r] # "await" => inbox' = inbox
         /\ pc[r] = "await" =>
              /\ result[r] = Failure(ItemNotFoundError)
              /\ IF req[r].surface = "socket"
                   THEN inbox' = [inbox EXCEPT ![req[r].socket] =
                                    Append(@, BidError(ItemNotFoundError, TRUE,
                                                       req[r].data.itemId))]
                   ELSE /\ inbox' = inbox
                        /\ response'[r].status = 400
                        /\ response'[r].error = ItemNotFoundError ]_vars

\* A socket has been sent the ItemNotFound error while another socket is connected.
C9_Witness ==
  \E s1, s2 \in Sockets :
    /\ s1 # s2
    /\ sockets[s2] = "connected"
    /\ inbox[s1] # <<>>
    /\ inbox[s1][Len(inbox[s1])].type = "bidError"
    /\ inbox[s1][Len(inbox[s1])].error = ItemNotFoundError

\* C10: the continuation of an accepted socket bid appends one bidUpdate to
\* the inbox of every connected socket, the originator's included, then one
\* bidSuccess to the originator's inbox and to no other.
C10_AcceptedBroadcast ==
  [][\A r \in Reqs :
       (pc[r] = "await" /\ pc'[r] = "done" /\ req[r].surface = "socket"
          /\ result[r].success) =>
         /\ sockets[req[r].socket] = "connected"
         /\ \A s \in Sockets :
              inbox'[s] =
                IF sockets[s] # "connected" THEN inbox[s]
                ELSE IF s = req[r].socket
                  THEN inbox[s] \o <<BidUpdate(result[r].item), BidSuccess(result[r].item)>>
                  ELSE Append(inbox[s], BidUpdate(result[r].item)) ]_vars

\* An accepted bid has been announced: the originator's inbox ends with the
\* bidUpdate and the bidSuccess, another connected socket's with the bidUpdate.
C10_Witness ==
  \E s1, s2 \in Sockets :
    /\ s1 # s2
    /\ sockets[s1] = "connected" /\ sockets[s2] = "connected"
    /\ Len(inbox[s1]) >= 3
    /\ inbox[s1][Len(inbox[s1])].type = "bidSuccess"
    /\ inbox[s1][Len(inbox[s1]) - 1].type = "bidUpdate"
    /\ inbox[s2][Len(inbox[s2])].type = "bidUpdate"
    /\ inbox[s2][Len(inbox[s2])].item = inbox[s1][Len(inbox[s1])].item

\* The events of a sequence that answer a bid: bidSuccess and bidError.
Outcomes(events) ==
  SelectSeq(events, LAMBDA e : e.type \in {"bidSuccess", "bidError"})

\* C11: a socket bid that is turned down, by the handler's field test or by
\* placeBid (item not found, bid too low), puts exactly one event into the
\* inboxes: a bidError at the end of its originator's inbox.  No other inbox
\* changes, and no earlier step of the request sends anything.
C11_RejectionFidelity ==
  [][\A r \in Reqs :
       /\ (pc'[r] # pc[r] /\ pc'[r] # "done") => inbox' = inbox
       /\ (req[r].surface = "socket" /\ pc[r] # "done" /\ pc'[r] = "done"
             /\ ~result[r].success) =>
            LET s == req[r].socket
                n == Len(inbox[s])
            IN  /\ Len(inbox'[s]) = n + 1
                /\ SubSeq(inbox'[s], 1, n) = inbox[s]
                /\ inbox'[s][n + 1].type = "bidError"
                /\ inbox'[s][n + 1].error.kind \in
                     {"MissingFields", "ItemNotFound", "BidTooLow"}
                /\ \A x \in Sockets \ {s} : inbox'[x] = inbox[x] ]_vars

\* One socket has been sent a bidError for missing fields and one for a bid
\* too low, and nothing else since it joined; another connected socket has
\* been sent nothing since it joined.
C11_Witness ==
  \E s1, s2 \in Sockets :
    /\ s1 # s2
    /\ sockets[s1] = "connected" /\ sockets[s2] = "connected"
    /\ Len(inbox[s2]) = 1
    /\ Len(inbox[s1]) = 3
    /\ inbox[s1][2].type = "bidError" /\ inbox[s1][3].type = "bidError"
    /\ {inbox[s1][2].error.kind, inbox[s1][3].error.kind} = {"MissingFields", "BidTooLow"}

\* The bidUpdate events for item i in the inbox of socket s, in order.
UpdatesSeen(s, i) ==
  SelectSeq(inbox[s], LAMBDA e : e.type = "bidUpdate" /\ e.item.id = SeedItems[i].id)

\* The accepted bids on item i whose bidUpdate has not been sent yet, in the
\* order in which placeBid returned for them.
UpdatesPending(i) ==
  SelectSeq(microtasks, LAMBDA r : result[r].success /\ item[r] = i)

\* The item copies of the bidUpdate events for item i that socket s has been
\* sent, followed by those it is still to be sent.
UpdateChain(s, i) ==
  LET U == UpdatesSeen(s, i)
      P == UpdatesPending(i)
  IN  [k \in 1..Len(U) |-> U[k].item] \o [k \in 1..Len(P) |-> result[P[k]].item]

\* Between handlers, the bidUpdate events a connected socket has been and is
\* still to be sent for an item end with the bid accepted last on that item:
\* the events follow the acceptances, one for one and in their order.
BroadcastInAcceptanceOrder ==
  running = 0 =>
    \A s \in Sockets, i \in 1..Len(auctionItems) :
      LET chain == UpdateChain(s, i)
      IN  (sockets[s] = "connected" /\ chain # <<>>) =>
            /\ chain[Len(chain)].currentBid = lastAccepted[i].amount
            /\ chain[Len(chain)].highestBidder = lastAccepted[i].bidderName

\* The currentBid values of the successive bidUpdate events a socket is sent
\* for an item are strictly increasing.
SeenStrictlyIncreasing ==
  \A s \in Sockets, i \in 1..Len(auctionItems) :
    LET U == UpdatesSeen(s, i)
    IN  \A k \in 1..(Len(U) - 1) :
          StrictlyGreater(U[k + 1].item.currentBid, U[k].item.currentBid)

\* C12: every socket is sent the bidUpdate events of an item in the order in
\* which the bids were accepted, and the currentBid values it sees in them are
\* strictly increasing.
C12_BroadcastOrdering == BroadcastInAcceptanceOrder /\ SeenStrictlyIncreasing

\* C13: a socket that has not connected yet has been sent nothing; a connecting
\* socket is sent initialState with the item list as it is at that moment, as
\* the first event of its inbox; and no later event of a connected socket's
\* inbox is an initialState.
C13_InitialStateFirst ==
  [][\A s \in Sockets :
       /\ sockets'[s] = "new" => inbox'[s] = <<>>
       /\ (sockets[s] = "new" /\ sockets'[s] = "connected")
            => inbox'[s] = <<InitialState(auctionItems)>>
       /\ sockets'[s] = "connected" =>
            /\ Len(inbox'[s]) >= 1
            /\ \A k \in 1..Len(inbox'[s]) :
                 (inbox'[s][k].type = "initialState") <=> (k = 1) ]_vars

\* A socket joined after a bid had been accepted: its initialState carries the
\* changed item list, and the next event it was sent is a bidUpdate.
C13_Witness ==
  \E s \in Sockets :
    /\ sockets[s] = "connected"
    /\ Len(inbox[s]) >= 2
    /\ inbox[s][1].type = "initialState"
    /\ inbox[s][1].items # SeedItems
    /\ inbox[s][2].type = "bidUpdate"

\* ------------------------------------------------------------- fairness

\* The steps of request r: its handler up to the await, placeBid, and the
\* continuation of the await.
RequestStep(r) ==
  \/ Validate(r)
  \/ While(r)
  \/ Acquire(r)
  \/ Find(r)
  \/ Check(r)
  \/ SetBid(r)
  \/ SetBidder(r)
  \/ Return(r)
  \/ Finally(r)
  \/ Continue(r)

\* The event loop goes on executing the handler it has started, fires the
\* timer of the wait loop and runs every queued continuation.
FairSpec == Spec /\ \A r \in Reqs : WF_vars(RequestStep(r))

\* Request r is answered in this step: its handler sends the response or the
\* event and returns.
Answered(r) == pc[r] # "done" /\ pc'[r] = "done"

\* Every step adds to a connected socket's inbox one bidSuccess or bidError for
\* each of the socket's bids answered in the step; the HTTP response of a
\* request is set only in the step that answers it, once, and an HTTP bid
\* answered in the step has its response set.
OneAnswerEach ==
  /\ \A s \in Sockets :
       (sockets[s] = "connected" /\ sockets'[s] = "connected") =>
         Len(Outcomes(inbox'[s])) =
           Len(Outcomes(inbox[s]))
             + Cardinality({r \in Reqs : /\ req[r].surface = "socket"
                                         /\ req[r].socket = s
                                         /\ Answered(r)})
  /\ \A r \in Reqs :
       /\ response'[r] # response[r] => (Answered(r) /\ response[r] = NoResponse)
       /\ (req[r].surface = "http" /\ Answered(r)) =>
            (response[r].status = 0 /\ response'[r].status # 0)
       /\ pc[r] = "done" => pc'[r] = "done"

\* A bid with a payload is answered.
WithPayloadAnswered ==
  \A r \in Reqs : (pc[r] \notin {"idle", "thrown", "crashed"}) ~> (pc[r] = "done")

\* C14: every bid that has been submitted is eventually answered, and each
\* answer is one bidSuccess or bidError to the originating socket, or one HTTP
\* response; no bid is answered twice.
C14_ExactlyOneOutcome ==
  /\ [][OneAnswerEach]_vars
  /\ \A r \in Reqs : (pc[r] # "idle") ~> (pc[r] = "done")

\* The items of the store whose id is the one request r names.
Named(r) == {i \in 1..Len(auctionItems) : auctionItems[i].id = req[r].data.itemId}

\* C15: a request in the wait loop goes on waiting or enters the section, with
\* no result; and placeBid turns a request down only by the admission rule on
\* the store as it stands when the request is in the section: ItemNotFound
\* when no item has its id, BidTooLow when its amount is <= the item's
\* currentBid.  It passes the check exactly when the amount is not <= currentBid.
C15_NoRejectionByContention ==
  [][\A r \in Reqs :
       /\ (pc[r] \in {"while", "sleep"} /\ pc'[r] # pc[r]) =>
            /\ result'[r] = NoResult
            /\ pc'[r] = IF isBidLocked THEN "sleep" ELSE "acquire"
       /\ (~result[r].returned /\ result'[r].returned /\ ~result'[r].success) =>
            IF Named(r) = {}
              THEN result'[r].error.kind = "ItemNotFound"
              ELSE /\ result'[r].error.kind = "BidTooLow"
                   /\ \A i \in Named(r) : JsLessEq(Amount(r), auctionItems[i].currentBid)
       /\ (pc[r] = "check" /\ pc'[r] # pc[r]) =>
            (pc'[r] = "setBid" <=> ~JsLessEq(Amount(r), auctionItems[item[r]].currentBid)) ]_vars

\* Contention: a bid on an item is accepted while an earlier accepted bid on
\* the same item is still in flight.
C15_Witness ==
  \E r1, r2 \in Reqs :
    /\ r1 # r2
    /\ pc[r1] = "await" /\ result[r1].success
    /\ pc[r2] = "finally" /\ result[r2].success
    /\ item[r1] = item[r2]

\* C16: an HTTP bid and a socket bid are never in the critical section
\* together, and whichever surface a bid comes from, placeBid decides it against
\* the one store: a bid that has passed the check is not <= the currentBid the
\* store holds, it becomes the last accepted bid of its item, and a bid too
\* low is told the amount of the last accepted bid of its item.
C16_SharedController ==
  /\ \A r1, r2 \in Reqs :
       (req[r1].surface = "http" /\ req[r2].surface = "socket")
         => ~(InCriticalSection(r1) /\ InCriticalSection(r2))
  /\ \A r \in Reqs :
       /\ pc[r] = "setBid" => ~JsLessEq(Amount(r), auctionItems[item[r]].currentBid)
       /\ (pc[r] = "finally" /\ item[r] # 0) =>
            IF result[r].success
              THEN lastAccepted[item[r]] =
                     [amount |-> Amount(r), bidderName |-> req[r].data.bidderName]
              ELSE result[r].error.current = lastAccepted[item[r]].amount

\* An HTTP bid of 105 has been turned down against the 110 that an accepted
\* socket bid left in the store.
C16_Witness ==
  \E r \in Reqs, s \in Sockets :
    /\ req[r].surface = "http"
    /\ pc[r] = "finally"
    /\ Amount(r) = Num(105)
    /\ result[r].error = [kind |-> "BidTooLow", current |-> Num(110)]
    /\ Len(inbox[s]) >= 3
    /\ inbox[s][3].type = "bidSuccess"
    /\ inbox[s][3].item.id = auctionItems[item[r]].id
    /\ inbox[s][3].item.currentBid = Num(110)

\* C17: every HTTP response sent for a bid is either 200 with success: true
\* and the item, or 400 with success: false and an error; and the
\* continuation of placeBid answers 200 exactly when placeBid accepted the bid.
C17_HttpContract ==
  [][\A r \in Reqs :
       (req[r].surface = "http" /\ pc[r] # "done" /\ pc'[r] = "done") =>
         LET res == response'[r]
         IN  /\ res.status \in {200, 400}
             /\ res.status = 200 <=> (pc[r] = "await" /\ result[r].success)
             /\ res.status = 200 =>
                  /\ res.hasSuccess /\ res.success
                  /\ res.item = result[r].item /\ res.item # NoItem
             /\ res.status = 400 =>
                  /\ res.hasSuccess /\ ~res.success
                  /\ res.error.kind \in {"MissingFields", "ItemNotFound", "BidTooLow"} ]_vars

\* C18: the bidError sent for a socket bid that is turned down carries the
\* reason and the itemId of the request, whatever the reason.
C18_BidErrorCarriesItemId ==
  [][\A r \in Reqs :
       (req[r].surface = "socket" /\ pc[r] # "done" /\ pc'[r] = "done"
          /\ ~result[r].success) =>
         LET box == inbox'[req[r].socket]
             e == box[Len(box)]
         IN  /\ e.type = "bidError"
             /\ e.error.kind \in {"MissingFields", "ItemNotFound", "BidTooLow"}
             /\ e.hasItemId
             /\ e.itemId = req[r].data.itemId ]_vars

\* C19: the check turns a bid down with the BidTooLow error that holds the
\* currentBid the item has in the store at that step, the value the amount was
\* compared with, and that same error is what the originator is sent.
C19_ReportsComparedBid ==
  [][\A r \in Reqs :
       /\ (pc[r] = "check" /\ pc'[r] = "finally") =>
            /\ result'[r].error =
                 [kind |-> "BidTooLow", current |-> auctionItems[item[r]].currentBid]
            /\ JsLessEq(Amount(r), result'[r].error.current)
       /\ (pc[r] = "await" /\ pc'[r] = "done" /\ result[r].error.kind = "BidTooLow") =>
            IF req[r].surface = "socket"
              THEN LET box == inbox'[req[r].socket]
                   IN  box[Len(box)].error = result[r].error
              ELSE response'[r].error = result[r].error ]_vars

\* A bid of 105 on item 1 (opening bid 100) has been turned down with the 110
\* of a bid accepted just before it, which is still in flight.
C19_Witness ==
  \E r1, r2 \in Reqs :
    /\ pc[r1] = "await" /\ result[r1].success /\ item[r1] = 1
    /\ pc[r2] = "finally" /\ item[r2] = 1
    /\ Amount(r2) = Num(105)
    /\ result[r2].error = [kind |-> "BidTooLow", current |-> Num(110)]
    /\ SeedItems[1].currentBid = Num(100)

LastWinner(r1) ==
  /\ pc[r1] = "await"
  /\ result[r1].success
  /\ lastAccepted[item[r1]] =
       [amount |-> Amount(r1), bidderName |-> req[r1].data.bidderName]

\* C21: a bid whose amount is above the item's currentBid passes the check;
\* and when r2 is checked right after the accepted r1 on the same item, both
\* amounts numbers, it is compared with r1's amount, the new floor, and is
\* turned down exactly when it is not strictly greater: equal amounts are never
\* both accepted.
C21_TieBreak ==
  [][\A r2 \in Reqs :
       (pc[r2] = "check" /\ pc'[r2] # "check") =>
         /\ StrictlyGreater(Amount(r2), auctionItems[item[r2]].currentBid)
              => pc'[r2] = "setBid"
         /\ \A r1 \in Reqs \ {r2} :
              (LastWinner(r1) /\ item[r1] = item[r2]
                 /\ IsNumber(Amount(r1)) /\ IsNumber(Amount(r2))) =>
                /\ auctionItems[item[r2]].currentBid = Amount(r1)
                /\ (pc'[r2] = "finally") <=> ~StrictlyGreater(Amount(r2), Amount(r1))
                /\ pc'[r2] = "finally" => ~result'[r2].success ]_vars

\* Two bids of 110 on item 1 (opening bid 100) by different bidders, in flight
\* together: the first was accepted, the second turned down.
C21_Witness ==
  \E r1, r2 \in Reqs :
    /\ r1 # r2
    /\ LastWinner(r1) /\ item[r1] = 1 /\ Amount(r1) = Num(110)
    /\ pc[r2] = "await" /\ item[r2] = 1 /\ Amount(r2) = Num(110)
    /\ req[r1].data.bidderName # req[r2].data.bidderName
    /\ result[r2].error.kind = "BidTooLow"

\* C22: no bid request, however malformed, makes its handler throw or ends the
\* process, and every HTTP bid that has left the server has its response.
C22_RejectionsAreValues ==
  \A r \in Reqs :
    /\ pc[r] \notin {"thrown", "crashed"}
    /\ (pc[r] = "done" /\ response[r] # NoResponse) => response[r].status \in {200, 400}

\* The auction of item i is over: its auctionEndsAt has passed.
Closed(i) == now > auctionItems[i].auctionEndsAt

\* C23: a bid above the currentBid of an item whose auctionEndsAt has passed
\* passes the check, and once accepted it is announced as any accepted bid is:
\* bidUpdate to every connected socket, then bidSuccess to the originating
\* socket or the 200 response to the HTTP caller.
C23_NoServerSideClosing ==
  [][\A r \in Reqs :
       /\ (pc[r] = "check" /\ pc'[r] # "check" /\ Closed(item[r])
             /\ StrictlyGreater(Amount(r), auctionItems[item[r]].currentBid))
            => pc'[r] = "setBid"
       /\ (pc[r] = "await" /\ pc'[r] = "done" /\ result[r].success /\ Closed(item[r])) =>
            /\ \A s \in Sockets :
                 inbox'[s] =
                   IF sockets[s] # "connected" THEN inbox[s]
                   ELSE IF req[r].surface = "socket" /\ s = req[r].socket
                     THEN inbox[s] \o <<BidUpdate(result[r].item), BidSuccess(result[r].item)>>
                     ELSE Append(inbox[s], BidUpdate(result[r].item))
            /\ req[r].surface = "http" =>
                 (response'[r].status = 200 /\ response'[r].item = result[r].item) ]_vars

\* A bid of 110 on item 1 has been accepted after the item's auctionEndsAt.
C23_Witness ==
  \E r \in Reqs :
    /\ pc[r] = "await"
    /\ result[r].success
    /\ Amount(r) = Num(110)
    /\ now > result[r].item.auctionEndsAt

\* C24: every step leaves the number of items and each item's id, title,
\* auctionEndsAt and image as they are; an item changes only in the two
\* assignments of a bid accepted on that item, the first changing nothing but
\* its currentBid and the second nothing but its highestBidder.
C24_Frame ==
  [][ /\ Len(auctionItems') = Len(auctionItems)
      /\ \A i \in 1..Len(auctionItems) :
           /\ auctionItems'[i].id = auctionItems[i].id
           /\ auctionItems'[i].title = auctionItems[i].title
           /\ auctionItems'[i].auctionEndsAt = auctionItems[i].auctionEndsAt
           /\ auctionItems'[i].image = auctionItems[i].image
           /\ auctionItems'[i] # auctionItems[i] =>
                \E r \in Reqs :
                  /\ item[r] = i
                  /\ \/ /\ pc[r] = "setBid" /\ pc'[r] = "setBidder"
                        /\ auctionItems'[i] =
                             [auctionItems[i] EXCEPT !.currentBid = Amount(r)]
                     \/ /\ pc[r] = "setBidder" /\ pc'[r] = "return"
                        /\ auctionItems'[i] =
                             [auctionItems[i] EXCEPT !.highestBidder = req[r].data.bidderName] ]_vars

\* B's bid of 110 on item 1 has been written: item 1 differs from the catalog
\* in its currentBid and highestBidder only, the other items not at all.
C24_Witness ==
  /\ auctionItems[1] =
       [SeedItems[1] EXCEPT !.currentBid = Num(110), !.highestBidder = Str("B")]
  /\ \A i \in 2..Len(SeedItems) : auctionItems[i] = SeedItems[i]
  /\ Len(auctionItems) = Len(SeedItems)

\* Request r is a read that has been answered.
IsRead(r) == pc[r] = "done" /\ "items" \in DOMAIN response[r]

\* C25: a GET of the item list or a join changes neither the store nor the
\* lock and returns the item list as the store holds it; so it returns the
\* same list as the read just before it, and the same list as the initialState
\* of every socket that has been sent no bidUpdate since it joined.
C25_ReadIdempotence ==
  [][ /\ \A r \in Reqs :
           (pc[r] = "idle" /\ pc'[r] = "done") =>
             /\ auctionItems' = auctionItems /\ isBidLocked' = isBidLocked
             /\ response'[r].status = 200
             /\ response'[r].items = auctionItems
             /\ (r > 1 /\ IsRead(r - 1)) => response'[r].items = response[r - 1].items
             /\ \A s \in Sockets :
                  (sockets[s] = "connected" /\ Len(inbox[s]) = 1)
                    => response'[r].items = inbox[s][1].items
      /\ \A s \in Sockets :
           (sockets[s] = "new" /\ sockets'[s] = "connected") =>
             /\ auctionItems' = auctionItems /\ isBidLocked' = isBidLocked
             /\ inbox'[s][1].items = auctionItems
             /\ \A r \in Reqs : (r = nreq /\ IsRead(r)) => inbox'[s][1].items = response[r].items
             /\ \A s0 \in Sockets :
                  (sockets[s0] = "connected" /\ Len(inbox[s0]) = 1)
                    => inbox'[s][1].items = inbox[s0][1].items ]_vars

\* After an accepted bid a socket has joined, and then the list has been read
\* over HTTP: the two lists are the same and are not the catalog as loaded.
C25_Witness ==
  \E s \in Sockets, r \in Reqs :
    /\ sockets[s] = "connected" /\ Len(inbox[s]) = 1
    /\ r = nreq /\ IsRead(r)
    /\ response[r].items = inbox[s][1].items
    /\ response[r].items # SeedItems

\* The event loop is about to take the next I/O event.
BetweenEvents ==
  Alive /\ NoRejectionPending /\ running = 0 /\ microtasks = <<>>

BeforeSection(r) == pc[r] \in {"validate", "while", "sleep", "acquire"}

\* C27: requests are numbered in the order in which their handlers start, and
\* a handler calls placeBid as it starts.  When a request enters the critical
\* section, no request that started before it is still before the section,
\* and no request that started after it exists yet.
C27_FifoAdmission ==
  [][\A r \in Reqs :
       (pc[r] = "acquire" /\ pc'[r] = "find") =>
         /\ \A r1 \in Reqs : r1 < r => ~BeforeSection(r1)
         /\ \A r2 \in Reqs : r2 > r => pc[r2] = "idle" ]_vars

\* The second of two bids of one batch enters the section while the first,
\* which went through it before, awaits its continuation.
C27_Witness ==
  \E r1, r2 \in Reqs :
    /\ r1 < r2
    /\ pc[r1] = "await" /\ result[r1].returned /\ item[r1] # 0
    /\ pc[r2] = "find"
    /\ running = r2

\* C28: the lock is never observed held.  The request that holds the lock is
\* the one whose handler is executing, so the lock is free whenever control is
\* with the event loop or with another request; every test of the wait loop
\* (line 50) finds it free; and no call is ever in the loop body (line 51).
C28_LockNeverObservedHeld ==
  /\ \A r \in Reqs : InCriticalSection(r) => running = r
  /\ isBidLocked => \E r \in Reqs : running = r /\ InCriticalSection(r)
  /\ \A r \in Reqs : pc[r] = "while" => ~isBidLocked
  /\ \A r \in Reqs : pc[r] # "sleep"

\* A call tests the wait loop's condition while another request, which has
\* been through the section and accepted, is still suspended at its await.
C28_Witness ==
  \E r1, r2 \in Reqs :
    /\ r1 # r2
    /\ pc[r1] = "await" /\ result[r1].returned /\ result[r1].success
    /\ pc[r2] = "while" /\ running = r2
    /\ req[r2].data.itemId = req[r1].data.itemId

\* The events that a step appends to the queue of socket s.
Emitted(s) == SubSeq(inbox'[s], Len(inbox[s]) + 1, Len(inbox'[s]))

\* The item has the amount and the bidder name of request r's bid.
CarriesBidOf(it, r) ==
  /\ it.currentBid = Amount(r)
  /\ it.highestBidder = req[r].data.bidderName

\* C29: when the handler of an accepted bid resumes, every event it emits is
\* a bid-update or bid-success whose item has that bid's amount and bidder
\* name, every connected socket gets the bid-update, the bidding socket gets
\* the bid-success, and an HTTP bidder's 200 body has that same item.
C29_SnapshotCopy ==
  [][\A r \in Reqs :
       (pc[r] = "await" /\ pc'[r] = "done" /\ result[r].success) =>
         /\ \A s \in Sockets : \A k \in 1..Len(Emitted(s)) :
              /\ Emitted(s)[k].type \in {"bidUpdate", "bidSuccess"}
              /\ CarriesBidOf(Emitted(s)[k].item, r)
         /\ \A s \in Sockets : sockets[s] = "connected" =>
              \E k \in 1..Len(Emitted(s)) : Emitted(s)[k].type = "bidUpdate"
         /\ (req[r].surface = "socket" /\ sockets[req[r].socket] = "connected") =>
              \E k \in 1..Len(Emitted(req[r].socket)) :
                Emitted(req[r].socket)[k].type = "bidSuccess"
         /\ req[r].surface = "http" =>
              /\ response'[r].status = 200
              /\ CarriesBidOf(response'[r].item, r) ]_vars

\* The last event a socket was sent is the bid-success of a bid whose item has
\* since been raised by a later accepted bid, which still awaits its
\* continuation: the event has the earlier bid's amount, not the stored one.
C29_Witness ==
  \E s \in Sockets : \E r2 \in Reqs :
    /\ inbox[s] # <<>>
    /\ inbox[s][Len(inbox[s])].type = "bidSuccess"
    /\ pc[r2] = "await" /\ result[r2].success /\ item[r2] # 0
    /\ inbox[s][Len(inbox[s])].item.id = auctionItems[item[r2]].id
    /\ inbox[s][Len(inbox[s])].item.currentBid # auctionItems[item[r2]].currentBid
    /\ auctionItems[item[r2]].currentBid = Amount(r2)

\* socketRef.current.on('initialState', ...) and on('bidUpdate', ...) of the
\* client: the first sets the list, the second replaces the item of the same
\* id; the other events leave the list alone.
ApplyEvent(view, e) ==
  CASE e.type = "initialState" -> e.items
    [] e.type = "bidUpdate" ->
         [k \in 1..Len(view) |-> IF StrictEq(view[k].id, e.item.id) THEN e.item ELSE view[k]]
    [] OTHER -> view

RECURSIVE Replay(_, _)
Replay(view, events) ==
  IF events = <<>> THEN view
  ELSE Replay(ApplyEvent(view, Head(events)), Tail(events))

\* The list a subscriber on socket s holds after the first k events it was sent.
ViewAfter(s, k) == Replay(<<>>, SubSeq(inbox[s], 1, k))

\* The list it holds once every event it was sent has been delivered.
View(s) == ViewAfter(s, Len(inbox[s]))

\* When no handler is running and no continuation is queued (every accepted
\* bid has had its events emitted), a connected subscriber's list has the
\* store's currentBid and highestBidder for every item.
ConvergedWhenQuiet ==
  (running = 0 /\ microtasks = <<>>) =>
    \A s \in Sockets : sockets[s] = "connected" =>
      \A i \in 1..Len(auctionItems) :
        /\ View(s)[i].id = auctionItems[i].id
        /\ View(s)[i].currentBid = auctionItems[i].currentBid
        /\ View(s)[i].highestBidder = auctionItems[i].highestBidder

\* From one delivered event to the next, no item's currentBid in the
\* subscriber's list goes down: the new value is at least the old one.
ViewNeverGoesDown ==
  \A s \in Sockets : \A k \in 1..(Len(inbox[s]) - 1) :
    \A i \in 1..Len(ViewAfter(s, k)) :
      JsLessEq(ViewAfter(s, k)[i].currentBid, ViewAfter(s, k + 1)[i].currentBid)

\* C30: a subscriber that sets its list from initialState and replaces an
\* item on each bidUpdate holds the store's currentBid and highestBidder for
\* every item once all events are out, and the currentBid it holds for an
\* item never goes down.
C30_SubscriberConvergence == ConvergedWhenQuiet /\ ViewNeverGoesDown

\* A bid on item i has been accepted.
BidAccepted(i) == auctionItems[i].highestBidder # SeedItems[i].highestBidder
                    \/ auctionItems[i].currentBid # SeedItems[i].currentBid

\* Between handlers an item has no bidder exactly when its currentBid is the
\* opening bid of the catalog.
NullBidderIffSeedBid ==
  running = 0 =>
    \A i \in 1..Len(auctionItems) :
      auctionItems[i].highestBidder = Null
        <=> auctionItems[i].currentBid = SeedItems[i].currentBid

\* Between handlers an item on which a bid was accepted has a bidder and a
\* currentBid above the opening bid.
AcceptedIsAboveSeed ==
  running = 0 =>
    \A i \in 1..Len(auctionItems) :
      BidAccepted(i) =>
        /\ auctionItems[i].highestBidder # Null
        /\ StrictlyGreater(auctionItems[i].currentBid, SeedItems[i].currentBid)

\* C31: highestBidder is null if and only if currentBid is the item's opening
\* bid, and an item with an accepted bid has a bidder and a currentBid above
\* the opening bid.
C31_NullBidderIffSeed == NullBidderIffSeedBid /\ AcceptedIsAboveSeed

\* C32: every bidSuccess a socket has been sent comes directly after the
\* bidUpdate of the same bid: the bidder is sent the bidUpdate first, and no
\* event of another bid lies between the two.
C32_UpdateBeforeSuccess ==
  \A s \in Sockets : \A k \in 1..Len(inbox[s]) :
    inbox[s][k].type = "bidSuccess" =>
      /\ k >= 2
      /\ inbox[s][k - 1].type = "bidUpdate"
      /\ inbox[s][k - 1].item = inbox[s][k].item

\* A socket sent two bids in one batch and both were accepted: its inbox ends
\* with the bidUpdate and bidSuccess of the first, then those of the second.
C32_Witness ==
  \E s \in Sockets :
    LET n == Len(inbox[s])
    IN  /\ n >= 5
        /\ inbox[s][n - 3].type = "bidUpdate"
        /\ inbox[s][n - 2].type = "bidSuccess"
        /\ inbox[s][n - 1].type = "bidUpdate"
        /\ inbox[s][n].type = "bidSuccess"
        /\ inbox[s][n].item.id = inbox[s][n - 2].item.id
        /\ inbox[s][n].item # inbox[s][n - 2].item

\* C33: a step of an HTTP bid changes the sockets' event sequences only when
\* the handler resumes with an accepted bid, and then it appends one bidUpdate
\* with that bid's item to the sequence of every connected socket and nothing
\* to any other; every other step of an HTTP bid, a rejected one's included,
\* emits nothing.
C33_HttpBidEvents ==
  [][\A r \in Reqs :
       ((req[r].surface = "http" \/ req'[r].surface = "http") /\ pc'[r] # pc[r]) =>
         IF pc[r] = "await" /\ result[r].success
           THEN \A s \in Sockets :
                  IF sockets[s] = "connected"
                    THEN /\ Len(inbox'[s]) = Len(inbox[s]) + 1
                         /\ SubSeq(inbox'[s], 1, Len(inbox[s])) = inbox[s]
                         /\ inbox'[s][Len(inbox'[s])].type = "bidUpdate"
                         /\ inbox'[s][Len(inbox'[s])].item = result[r].item
                    ELSE inbox'[s] = inbox[s]
           ELSE inbox' = inbox ]_vars

\* Two sockets are connected; one HTTP bid was accepted and one was turned
\* down by placeBid: each socket has been sent initialState and the one
\* bidUpdate, and nothing else.
C33_Witness ==
  \E r1, r2 \in Reqs :
    /\ response[r1].status = 200 /\ response[r1].hasSuccess /\ response[r1].success
    /\ response[r2].status = 400 /\ response[r2].hasSuccess
    /\ \A s \in Sockets :
         /\ sockets[s] = "connected"
         /\ Len(inbox[s]) = 2
         /\ inbox[s][1].type = "initialState"
         /\ inbox[s][2].type = "bidUpdate"
         /\ inbox[s][2].item = response[r1].item

====
